---- MODULE Spec2Model ----
(***************************************************************************)
(* Module-boundary enforcement of the template: the zones handed to the    *)
(* lint rule import/no-restricted-paths in eslint.config.mjs, evaluated    *)
(* file by file as the rule evaluates them.                                *)
(*                                                                         *)
(* A path is a sequence of directory/file segments relative to the project *)
(* root (the rule's basePath), so <<"features", "blog">> is ./features/blog *)
(* and containment is containment of whole segments.                       *)
(***************************************************************************)
EXTENDS Naturals, Sequences, FiniteSets, TLC

\* Longest import list of a linted file.
MaxImports == 2

\* Most files in a scanned tree, workers analysing it, and invocations in a row.
MaxFiles == 3
MaxWorkers == 2
MaxInvocations == 2

(***************************************************************************)
(* Configuration                                                           *)
(***************************************************************************)

\* Variant of the declared zones whose shared-layer rule forgets ./app.
DeclaredZonesSharedFromFeaturesOnly ==
  << [target |-> << <<"features", "blog">> >>,
      from   |-> << <<"features">> >>,
      except |-> << <<"blog">> >>],
     [target |-> << <<"features">> >>,
      from   |-> << <<"app">> >>,
      except |-> <<>>],
     [target |-> << <<"components">>, <<"hooks">>, <<"lib">>,
                    <<"types">>, <<"utils">> >>,
      from   |-> << <<"features">> >>,
      except |-> <<>>] >>

\* The zones of eslint.config.mjs. target and from are lists of paths
\* relative to the project root; except is relative to from.
DeclaredZones ==
  << [target |-> << <<"features", "blog">> >>,
      from   |-> << <<"features">> >>,
      except |-> << <<"blog">> >>],
     [target |-> << <<"features">> >>,
      from   |-> << <<"app">> >>,
      except |-> <<>>],
     [target |-> << <<"components">>, <<"hooks">>, <<"lib">>,
                    <<"types">>, <<"utils">> >>,
      from   |-> << <<"features">>, <<"app">> >>,
      except |-> <<>>] >>

\* The single rule of the exception example: target features, forbidden
\* source features, exception features/blog (./blog relative to from).
ExceptionRuleZones ==
  << [target |-> << <<"features">> >>,
      from   |-> << <<"features">> >>,
      except |-> << <<"blog">> >>] >>

\* A rule set in which every layer is forbidden to import every layer.
LockedZones ==
  << [target |-> << <<"app">>, <<"features">>, <<"components">>,
                    <<"hooks">>, <<"lib">>, <<"types">>, <<"utils">> >>,
      from   |-> << <<"app">>, <<"features">>, <<"components">>,
                    <<"hooks">>, <<"lib">>, <<"types">>, <<"utils">> >>,
      except |-> <<>>] >>

RuleSets == {DeclaredZones, ExceptionRuleZones, LockedZones}

(***************************************************************************)
(* Source files and import specifiers                                      *)
(***************************************************************************)

FilePaths ==
  { <<"app", "page">>,
    <<"features", "blog", "components", "blog-list">>,
    <<"features", "blog", "api", "get-blogs">>,
    <<"features", "users", "components", "card">>,
    <<"features", "bloggy", "components", "card">>,
    <<"components", "ui", "button">>,
    <<"hooks", "use-x">>,
    <<"lib", "x">>,
    <<"types", "common.types">>,
    <<"utils", "cn">>,
    <<"config", "env">>,
    <<"prisma", "seed">> }

\* An import specifier as written: "@/a/b" (alias), "./a", "../a/b"
\* (relative, up = number of leading ..) or a package name (bare).
\* exists tells whether the module resolver finds the module.
Alias(segs)         == [kind |-> "alias", up |-> 0, segs |-> segs, exists |-> TRUE]
Relative(up, segs)  == [kind |-> "relative", up |-> up, segs |-> segs, exists |-> TRUE]
Bare(segs)          == [kind |-> "bare", up |-> 0, segs |-> segs, exists |-> TRUE]
Missing(segs)       == [kind |-> "alias", up |-> 0, segs |-> segs, exists |-> FALSE]

Specifiers ==
  { Alias(<<"features", "blog", "components", "blog-card">>),
    Alias(<<"features", "blog", "api", "get-blogs">>),
    Alias(<<"features", "users", "components", "user-card">>),
    Alias(<<"app", "layout">>),
    Alias(<<"lib", "databases">>),
    Alias(<<"components", "ui", "button">>),
    Alias(<<"hooks", "use-x">>),
    Alias(<<"types", "common.types">>),
    Relative(0, <<"blog-card">>),
    Relative(1, <<"types", "blog.types">>),
    Relative(2, <<"auth", "api", "session">>),
    Bare(<<"date-fns">>),
    Missing(<<"features", "blog", "gone">>) }

RECURSIVE SeqsUpTo(_, _)
SeqsUpTo(S, n) ==
  IF n = 0 THEN {<<>>}
  ELSE LET shorter == SeqsUpTo(S, n - 1)
       IN  shorter \cup {Append(s, x) : s \in shorter, x \in S}

ImportLists == SeqsUpTo(Specifiers, MaxImports)

SourceFile(path, imps) == [path |-> path, imports |-> imps]

\* The template's own source files, each with the imports it declares.
RepositoryFiles ==
  { SourceFile(<<"app", "page">>,
               << Alias(<<"features", "blog", "api", "get-blogs">>),
                  Alias(<<"features", "blog", "components", "blog-header">>),
                  Alias(<<"features", "blog", "components", "blog-list">>) >>),
    SourceFile(<<"features", "blog", "components", "blog-header">>, <<>>),
    SourceFile(<<"features", "blog", "components", "blog-list">>,
               << Relative(0, <<"blog-card">>),
                  Relative(1, <<"types", "blog.types">>) >>),
    SourceFile(<<"features", "blog", "components", "blog-card">>,
               << Bare(<<"date-fns">>),
                  Relative(1, <<"types", "blog.types">>) >>),
    SourceFile(<<"features", "blog", "api", "get-blogs">>,
               << Alias(<<"lib", "databases">>),
                  Relative(1, <<"types", "blog.types">>) >>),
    SourceFile(<<"lib", "prisma">>,
               << Relative(0, <<"generated", "prisma-blogs">>),
                  Alias(<<"config", "env">>) >>) }

(***************************************************************************)
(* Module resolution                                                       *)
(***************************************************************************)

Dirname(path) == SubSeq(path, 1, Len(path) - 1)

\* dir/../..(up times)/segs, normalised; climbing above the project root
\* leaves the project tree.
JoinRelative(dir, up, segs) ==
  IF up <= Len(dir)
    THEN SubSeq(dir, 1, Len(dir) - up) \o segs
    ELSE <<"..">> \o segs

\* Variant: a module that is not found is taken to be where its specifier says.
ResolveAssumingFound(filename, spec) ==
  [found |-> TRUE,
   path  |-> CASE spec.kind = "alias"    -> spec.segs
               [] spec.kind = "relative" ->
                    JoinRelative(Dirname(filename), spec.up, spec.segs)
               [] spec.kind = "bare"     -> <<"node_modules">> \o spec.segs]

\* The resolved path of a specifier written in file filename, or not found.
\* "@/x" stands for <root>/x; a package resolves into node_modules.
Resolve(filename, spec) ==
  IF ~spec.exists THEN [found |-> FALSE, path |-> <<>>]
  ELSE [found |-> TRUE,
        path  |-> CASE spec.kind = "alias"    -> spec.segs
                    [] spec.kind = "relative" ->
                         JoinRelative(Dirname(filename), spec.up, spec.segs)
                    [] spec.kind = "bare"     -> <<"node_modules">> \o spec.segs]

(***************************************************************************)
(* import/no-restricted-paths                                              *)
(***************************************************************************)

\* Variant: compares depths only, not the segments.
ContainsPathLoose(filepath, target) == Len(target) <= Len(filepath)

\* Name a is a proper prefix of name b, as strings.
IsProperStringPrefix(a, b) ==
  <<a, b>> \in { <<"blog", "bloggy">>, <<"blog", "blog-list">>,
                 <<"blog", "blog-card">>, <<"blog", "blog-header">>,
                 <<"blog", "blog.types">> }

\* Variant: the target is a prefix of the file's path as a string, so its
\* last segment may stop in the middle of a name.
ContainsPathRawPrefix(filepath, target) ==
  \/ target = <<>>
  \/ /\ Len(target) <= Len(filepath)
     /\ SubSeq(filepath, 1, Len(target) - 1) = SubSeq(target, 1, Len(target) - 1)
     /\ \/ filepath[Len(target)] = target[Len(target)]
        \/ IsProperStringPrefix(target[Len(target)], filepath[Len(target)])

\* filepath is target or lies below it.
ContainsPath(filepath, target) ==
  /\ Len(target) <= Len(filepath)
  /\ SubSeq(filepath, 1, Len(target)) = target

IsMatchingTargetPath(filename, targetPath) == ContainsPath(filename, targetPath)

\* Variant: only the zones with the most specific matching target.
MatchingZonesLongest(filename, zs) ==
  LET depth(i) ==
        {Len(zs[i].target[t]) : t \in {u \in DOMAIN zs[i].target :
                                   IsMatchingTargetPath(filename, zs[i].target[u])}}
      hit == {i \in DOMAIN zs : depth(i) # {}}
  IN  {i \in hit : \A j \in hit : \A dj \in depth(j) : \E di \in depth(i) : di >= dj}

\* Variant: only the first path of a target list is looked at.
MatchingZonesFirstTarget(filename, zs) ==
  {i \in DOMAIN zs : IsMatchingTargetPath(filename, zs[i].target[1])}

\* Variant: every zone, whatever its target.
MatchingZonesAll(filename, zs) == DOMAIN zs

\* The zones that apply to a file: every zone one of whose targets contains it.
MatchingZones(filename, zs) ==
  {i \in DOMAIN zs :
     \E t \in DOMAIN zs[i].target : IsMatchingTargetPath(filename, zs[i].target[t])}

\* Variant: exceptions taken relative to the project root.
ExceptionPathsFromRoot(from, except) == except

\* A zone's exceptions are resolved against its from path.
ExceptionPaths(from, except) == [k \in DOMAIN except |-> from \o except[k]]

\* The import lies below the zone's from path.
IsPathRestricted(importPath, from) == ContainsPath(importPath, from)

\* Variants: any exception exempts the whole from path; exceptions are
\* ignored; an exception exempts its own path but nothing below it.
IsPathExceptionWholeZone(importPath, from, except) == except # <<>>

IsPathExceptionNever(importPath, from, except) == FALSE

IsPathExceptionExact(importPath, from, except) ==
  \E k \in DOMAIN except : importPath = from \o except[k]

\* The import lies below one of the zone's exception paths.
IsPathException(importPath, from, except) ==
  \E k \in DOMAIN except :
     ContainsPath(importPath, ExceptionPaths(from, except)[k])

\* <<zone, from>> index pairs in evaluation order, from zone i on.
RECURSIVE ZonePairs(_, _)
ZonePairs(zs, i) ==
  IF i > Len(zs) THEN <<>>
  ELSE [f \in 1..Len(zs[i].from) |-> <<i, f>>] \o ZonePairs(zs, i + 1)

\* The messages reported for the n-th import of a file.
CheckForRestrictedImportPath(filename, spec, n, matching, zs) ==
  LET r == Resolve(filename, spec)
      Hit(p) == /\ p[1] \in matching
                /\ IsPathRestricted(r.path, zs[p[1]].from[p[2]])
                /\ ~IsPathException(r.path, zs[p[1]].from[p[2]], zs[p[1]].except)
      hits == SelectSeq(ZonePairs(zs, 1), Hit)
  IN  IF ~r.found THEN <<>>
      ELSE [k \in 1..Len(hits) |->
              [import    |-> n,
               specifier |-> spec,
               zone      |-> hits[k][1],
               from      |-> zs[hits[k][1]].from[hits[k][2]]]]

\* The messages reported for the first n imports of a file, in source order.
RECURSIVE LintImports(_, _, _, _)
LintImports(filename, imps, n, zs) ==
  IF n = 0 THEN <<>>
  ELSE LintImports(filename, imps, n - 1, zs)
         \o CheckForRestrictedImportPath(
              filename, imps[n], n, MatchingZones(filename, zs), zs)

\* Variant: the traversal stops at the first message.
LintFileFirstOnly(filename, imps, zs) ==
  LET all == LintImports(filename, imps, Len(imps), zs)
  IN  SubSeq(all, 1, IF all = <<>> THEN 0 ELSE 1)

\* The messages reported for a whole file.
LintFile(filename, imps, zs) == LintImports(filename, imps, Len(imps), zs)

(***************************************************************************)
(* One lint pass over a file                                               *)
(***************************************************************************)

VARIABLES
  zones,          \* the configured zones
  pc,             \* "idle", "visiting" or "done"
  filename,       \* the file being linted
  imports,        \* its import specifiers, in source order
  idx,            \* number of imports visited
  matchingZones,  \* zones whose target contains the file
  report,         \* messages reported for the file so far
  tree,           \* the source files of the snapshot a run analyses
  analysed,       \* the files of the tree analysed so far
  lists,          \* each worker's append-only list of violations
  outcome,        \* "none", "analysing", "clean", "failed", "configuration_error"
  exitStatus,     \* exit status of the ended run
  finalReport,    \* the report of the ended run
  invocation,     \* number of the current invocation
  previous        \* what the previous invocation returned

\* The render test (scripts/test-render.js): one run of the process.
VARIABLES
  args,           \* the routes given on the command line
  serverUp,       \* whether the dev server answers within waitOn's timeout
  routesToTest,   \* the routes the run tests
  mainPc,         \* the await main() is suspended at, or "exited"
  browser,        \* TRUE once the variable browser holds a launched browser
  closeCalls,     \* invocations of browser.close()
  browserClosed,  \* a browser.close() has completed
  handlers,       \* signal handlers suspended at their await cleanup()
  signals,        \* signals delivered so far
  routeIdx,       \* position in routesToTest of the testRoute call running
  current,        \* errors and warnings of the testRoute call running
  allResults,     \* results pushed by the loop of runBrowserTests
  injected,       \* scripts registered with evaluateOnNewDocument
  loaded,         \* the route whose document the page holds, and its scripts
  events,         \* page events raised so far
  exitCode,       \* main's exitCode variable
  processExit     \* who called process.exit with what code

\* The seed script (prisma/blogs/seed.ts) and the home page reading the table.
VARIABLES
  blogTable,      \* the rows of the blog table
  startTable,     \* the table before the first run of the script
  seedPc,         \* "upsert", "disconnect", "ended" or "idle"
  seedIdx,        \* seed entries upserted in this run
  seedRun,        \* number of the run of the script
  seedStatus,     \* error logged, $disconnect invoked, exit status of the run
  seeded,         \* a run of the script has upserted every entry
  home            \* what the last request of the home page fetched and rendered

lintVars == <<pc, filename, imports, idx, matchingZones, report>>
runVars == <<tree, analysed, lists, outcome, exitStatus, finalReport,
             invocation, previous>>
renderVars == <<args, serverUp, routesToTest, mainPc, browser, closeCalls,
                browserClosed, handlers, signals, routeIdx, current,
                allResults, injected, loaded, events, exitCode, processExit>>
seedVars == <<blogTable, startTable, seedPc, seedIdx, seedRun, seedStatus,
              seeded, home>>
vars == <<zones, lintVars, runVars, renderVars, seedVars>>

WorkerIds == 1..MaxWorkers

\* Variant: a worker starts with what its list held before.
StartListsCarried == lists

\* Every worker starts a new invocation with an empty list.
StartLists == [w \in WorkerIds |-> <<>>]

NoCall == [route |-> "", status |-> 0, errors |-> <<>>, warnings |-> <<>>]

NoExit == [by |-> "nobody", code |-> 0]

NoDocument == [route |-> 0, scripts |-> 0]

NoRender ==
  /\ args = <<>>
  /\ serverUp = FALSE
  /\ routesToTest = <<>>
  /\ mainPc = "idle"
  /\ browser = FALSE
  /\ closeCalls = 0
  /\ browserClosed = FALSE
  /\ handlers = 0
  /\ signals = 0
  /\ routeIdx = 0
  /\ current = NoCall
  /\ allResults = <<>>
  /\ injected = 0
  /\ loaded = NoDocument
  /\ events = 0
  /\ exitCode = 0
  /\ processExit = NoExit

NoStatus == [logged |-> FALSE, disconnected |-> FALSE, exit |-> "none"]

NoHome == [requested |-> FALSE, table |-> {}, fetched |-> <<>>,
           cards |-> <<>>, message |-> FALSE]

NoSeed ==
  /\ blogTable = {}
  /\ startTable = {}
  /\ seedPc = "idle"
  /\ seedIdx = 0
  /\ seedRun = 0
  /\ seedStatus = NoStatus
  /\ seeded = FALSE
  /\ home = NoHome

NoLint ==
  /\ pc = "idle"
  /\ filename = <<>>
  /\ imports = <<>>
  /\ idx = 0
  /\ matchingZones = {}
  /\ report = <<>>

NoRun ==
  /\ tree = {}
  /\ analysed = {}
  /\ lists = [w \in WorkerIds |-> <<>>]
  /\ outcome = "none"
  /\ exitStatus = 0
  /\ finalReport = <<>>
  /\ invocation = 1
  /\ previous = "none"

Init ==
  /\ zones \in RuleSets
  /\ pc = "idle"
  /\ filename = <<>>
  /\ imports = <<>>
  /\ idx = 0
  /\ matchingZones = {}
  /\ report = <<>>
  /\ NoRun
  /\ NoRender
  /\ NoSeed

\* The rule is created for a file: its matching zones are computed once.
Create ==
  /\ pc = "idle"
  /\ \E sf \in {SourceFile(f, imps) : f \in FilePaths, imps \in ImportLists}
                 \cup RepositoryFiles :
       /\ filename' = sf.path
       /\ imports' = sf.imports
       /\ matchingZones' = MatchingZones(sf.path, zones)
  /\ idx' = 0
  /\ report' = <<>>
  /\ pc' = "visiting"
  /\ UNCHANGED <<zones, runVars, renderVars, seedVars>>

\* The next import declaration of the file is visited.
ImportDeclaration ==
  /\ pc = "visiting"
  /\ idx < Len(imports)
  /\ idx' = idx + 1
  /\ report' = report \o CheckForRestrictedImportPath(
                           filename, imports[idx + 1], idx + 1, matchingZones, zones)
  /\ UNCHANGED <<zones, pc, filename, imports, matchingZones, runVars, renderVars, seedVars>>

\* The file has been traversed.
ProgramExit ==
  /\ pc = "visiting"
  /\ idx = Len(imports)
  /\ pc' = "done"
  /\ UNCHANGED <<zones, filename, imports, idx, matchingZones, report, runVars, renderVars, seedVars>>

\* The linter moves on to the next file; nothing of the rule's state is kept.
NextFile ==
  /\ pc = "done"
  /\ pc' = "idle"
  /\ filename' = <<>>
  /\ imports' = <<>>
  /\ idx' = 0
  /\ matchingZones' = {}
  /\ report' = <<>>
  /\ UNCHANGED <<zones, runVars, renderVars, seedVars>>

Next == Create \/ ImportDeclaration \/ ProgramExit \/ NextFile

Spec == Init /\ [][Next]_vars

(***************************************************************************)
(* A run of the boundary checker over a project snapshot                   *)
(***************************************************************************)

\* The directories of the project.
ProjectDirs ==
  { <<"app">>, <<"components">>, <<"config">>, <<"features">>,
    <<"features", "blog">>, <<"hooks">>, <<"lib">>, <<"prisma">>,
    <<"types">>, <<"utils">> }

\* Source files a snapshot may hold, each with its import list.
ProjectFiles ==
  { SourceFile(<<"features", "blog", "components", "blog-list">>,
               << Relative(0, <<"blog-card">>),
                  Relative(1, <<"types", "blog.types">>) >>),
    SourceFile(<<"features", "blog", "api", "get-blogs">>,
               << Alias(<<"features", "users", "components", "user-card">>),
                  Alias(<<"app", "layout">>),
                  Alias(<<"lib", "databases">>) >>),
    SourceFile(<<"lib", "x">>,
               << Alias(<<"features", "blog", "api", "get-blogs">>) >>),
    SourceFile(<<"components", "ui", "button">>,
               << Bare(<<"date-fns">>),
                  Alias(<<"app", "layout">>),
                  Alias(<<"features", "blog", "components", "blog-card">>) >>),
    SourceFile(<<"app", "page">>,
               << Alias(<<"features", "blog", "api", "get-blogs">>),
                  Alias(<<"features", "blog", "components", "blog-card">>) >>) }

Trees == {T \in SUBSET ProjectFiles : Cardinality(T) \in 1..MaxFiles}

\* The declared zones plus a rule keeping features out of lib.
StrictZones ==
  DeclaredZones \o << [target |-> << <<"features">> >>,
                       from   |-> << <<"lib">> >>,
                       except |-> <<>>] >>

\* The declared zones plus a rule for a feature directory that does not exist.
BrokenZones ==
  DeclaredZones \o << [target |-> << <<"features", "billing">> >>,
                       from   |-> << <<"features">> >>,
                       except |-> << <<"billing">> >>] >>

Reverse(q) == [k \in DOMAIN q |-> q[Len(q) + 1 - k]]

RunRuleSets == {DeclaredZones, StrictZones, Reverse(StrictZones), BrokenZones}

\* Variant: only the forbidden source paths are looked up.
ConfigurationErrorSourcesOnly(zs) ==
  \E z \in DOMAIN zs : \E f \in DOMAIN zs[z].from : zs[z].from[f] \notin ProjectDirs

\* A zone path of the configuration does not exist in the project.
ConfigurationError(zs) ==
  \E z \in DOMAIN zs :
     \/ \E t \in DOMAIN zs[z].target : zs[z].target[t] \notin ProjectDirs
     \/ \E f \in DOMAIN zs[z].from : zs[z].from[f] \notin ProjectDirs
     \/ \E f \in DOMAIN zs[z].from : \E e \in DOMAIN zs[z].except :
           zs[z].from[f] \o zs[z].except[e] \notin ProjectDirs

\* Variant: violations are reported as warnings.
SeverityWarn == "warn"

\* The severity the rule is configured with.
Severity == "error"

\* The violations of one source file, in the order of its imports.
FileViolations(f, zs) ==
  LET msgs == LintFile(f.path, f.imports, zs)
  IN  [k \in DOMAIN msgs |->
         [file      |-> f.path,
          import    |-> msgs[k].import,
          specifier |-> msgs[k].specifier,
          rule      |-> zs[msgs[k].zone],
          from      |-> msgs[k].from,
          severity  |-> Severity]]

\* Path segments in ascending lexical order.
SegmentOrder ==
  << "api", "app", "blog", "blog-list", "button", "components", "features",
     "get-blogs", "lib", "page", "ui", "x" >>

SegmentRank(name) == CHOOSE k \in DOMAIN SegmentOrder : SegmentOrder[k] = name

\* p comes strictly before q in ascending lexical order.
RECURSIVE PathLess(_, _)
PathLess(p, q) ==
  IF q = <<>> THEN FALSE
  ELSE IF p = <<>> THEN TRUE
  ELSE IF Head(p) = Head(q) THEN PathLess(Tail(p), Tail(q))
  ELSE SegmentRank(Head(p)) < SegmentRank(Head(q))

\* Variant: violations are ordered by import position alone.
BeforeByImport(a, b) == a.import < b.import

\* a is listed before b: by file path, then by position of the import.
Before(a, b) ==
  \/ PathLess(a.file, b.file)
  \/ a.file = b.file /\ a.import < b.import

\* x inserted into a sorted list, after the entries it is not before.
RECURSIVE Insert(_, _)
Insert(x, sorted) ==
  IF sorted = <<>> THEN <<x>>
  ELSE IF Before(x, Head(sorted)) THEN <<x>> \o sorted
  ELSE <<Head(sorted)>> \o Insert(x, Tail(sorted))

\* Variant: the merged list is reported as it is.
SortReportSkipped(vs) == vs

\* The deterministic sort of the report (stable).
RECURSIVE SortReport(_)
SortReport(vs) ==
  IF vs = <<>> THEN <<>>
  ELSE Insert(vs[Len(vs)], SortReport(SubSeq(vs, 1, Len(vs) - 1)))

\* The workers' lists, concatenated.
RECURSIVE Concatenate(_, _)
Concatenate(ls, w) ==
  IF w > MaxWorkers THEN <<>> ELSE ls[w] \o Concatenate(ls, w + 1)

\* Exit status of a run that ended with report vs: non-zero if it holds an error.
ExitStatus(vs) == IF \E k \in DOMAIN vs : vs[k].severity = "error" THEN 1 ELSE 0

\* Exit status of a run aborted by a configuration error.
ConfigurationErrorStatus == 2

RunInit ==
  /\ zones \in RunRuleSets
  /\ pc = "idle"
  /\ filename = <<>>
  /\ imports = <<>>
  /\ idx = 0
  /\ matchingZones = {}
  /\ report = <<>>
  /\ tree \in Trees
  /\ analysed = {}
  /\ lists = [w \in WorkerIds |-> <<>>]
  /\ outcome = "none"
  /\ exitStatus = 0
  /\ finalReport = <<>>
  /\ invocation = 1
  /\ previous = "none"
  /\ NoRender
  /\ NoSeed

\* The configuration is read; a configuration error aborts the run.
LoadConfiguration ==
  /\ outcome = "none"
  /\ IF ConfigurationError(zones)
       THEN /\ outcome' = "configuration_error"
            /\ exitStatus' = ConfigurationErrorStatus
       ELSE /\ outcome' = "analysing"
            /\ UNCHANGED exitStatus
  /\ UNCHANGED <<zones, lintVars, tree, analysed, lists, finalReport,
                 invocation, previous, renderVars, seedVars>>

\* A worker analyses a file nobody has analysed and appends its violations.
Analyse ==
  /\ outcome = "analysing"
  /\ \E w \in WorkerIds, f \in tree \ analysed :
       /\ lists' = [lists EXCEPT ![w] = @ \o FileViolations(f, zones)]
       /\ analysed' = analysed \cup {f}
  /\ UNCHANGED <<zones, lintVars, tree, outcome, exitStatus, finalReport,
                 invocation, previous, renderVars, seedVars>>

\* Every file is analysed: the lists are merged, sorted and judged.
Merge ==
  /\ outcome = "analysing"
  /\ analysed = tree
  /\ LET merged == SortReport(Concatenate(lists, 1))
     IN  /\ finalReport' = merged
         /\ outcome' = IF merged = <<>> THEN "clean" ELSE "failed"
         /\ exitStatus' = ExitStatus(merged)
  /\ UNCHANGED <<zones, lintVars, tree, analysed, lists, invocation, previous,
                 renderVars, seedVars>>

\* The checker is invoked again on the unchanged tree.
Invoke ==
  /\ outcome \in {"clean", "failed", "configuration_error"}
  /\ invocation < MaxInvocations
  /\ invocation' = invocation + 1
  /\ previous' = [outcome |-> outcome, exitStatus |-> exitStatus,
                  report |-> finalReport]
  /\ lists' = StartLists
  /\ analysed' = {}
  /\ outcome' = "none"
  /\ exitStatus' = 0
  /\ finalReport' = <<>>
  /\ UNCHANGED <<zones, lintVars, tree, renderVars, seedVars>>

RunNext == LoadConfiguration \/ Analyse \/ Merge \/ Invoke

RunSpec == RunInit /\ [][RunNext]_vars

(***************************************************************************)
(* Vocabulary of the properties                                            *)
(***************************************************************************)

Range(s) == {s[k] : k \in DOMAIN s}

Visited == 1..idx

ResolvedPath(i) == Resolve(filename, imports[i])

\* The import resolves to a module below directory dir.
ResolvesUnder(i, dir) == ResolvedPath(i).found /\ ContainsPath(ResolvedPath(i).path, dir)

ReportedAt(i) == {r \in Range(report) : r.import = i}

ReportedBy(i, z) == {r \in ReportedAt(i) : r.zone = z}

SharedDirs == {<<"components">>, <<"hooks">>, <<"lib">>, <<"types">>, <<"utils">>}

\* The feature directory features/<name> a path lies in, if any.
InFeature(path) == Len(path) >= 3 /\ path[1] = "features"
FeatureOf(path) == SubSeq(path, 1, 2)

\* The import resolves to a module that is not part of the project's sources.
ResolvesOutsideProject(i) ==
  /\ ResolvedPath(i).found
  /\ ResolvedPath(i).path[1] \in {"node_modules", ".."}

(***************************************************************************)
(* Properties                                                              *)
(***************************************************************************)

\* C1: under the declared zones, a file of feature A importing a module of a
\* different feature B gets exactly one message for that import.
CrossFeatureImportReported ==
  zones = DeclaredZones =>
    \A i \in Visited :
      ( /\ InFeature(filename)
        /\ ResolvedPath(i).found
        /\ InFeature(ResolvedPath(i).path)
        /\ FeatureOf(filename) # FeatureOf(ResolvedPath(i).path) )
      => Cardinality(ReportedAt(i)) = 1

\* C2: under the declared zones, every file below features/ (features/blog
\* included) that imports a module below app/ is reported by the rule
\* target features / from app.
FeaturesMayNotImportApp ==
  zones = DeclaredZones =>
    \A i \in Visited :
      (ContainsPath(filename, <<"features">>) /\ ResolvesUnder(i, <<"app">>))
      => \E r \in ReportedBy(i, 2) : r.from = <<"app">>

FeaturesMayNotImportAppWitness ==
  /\ zones = DeclaredZones
  /\ ContainsPath(filename, <<"features", "blog">>)
  /\ \E i \in Visited : ResolvesUnder(i, <<"app">>) /\ ReportedBy(i, 2) # {}

\* C3: under the declared zones, an import of a file in a shared directory
\* that resolves below features/ or app/ gets exactly one message, from the
\* shared-layer rule.
SharedNeverImportsUpward ==
  zones = DeclaredZones =>
    \A i \in Visited :
      ( /\ \E d \in SharedDirs : ContainsPath(filename, d)
        /\ ResolvesUnder(i, <<"features">>) \/ ResolvesUnder(i, <<"app">>) )
      => /\ Cardinality(ReportedAt(i)) = 1
         /\ ReportedAt(i) = ReportedBy(i, 3)

SharedNeverImportsUpwardWitness ==
  /\ zones = DeclaredZones
  /\ filename = <<"lib", "x">>
  /\ \E i \in Visited :
       /\ imports[i] = Alias(<<"features", "blog", "api", "get-blogs">>)
       /\ Cardinality(ReportedAt(i)) = 1

\* The verdicts of the two declared rules whose targets contain features/blog.
BlogRuleForbids(i) ==
  ResolvesUnder(i, <<"features">>) /\ ~ResolvesUnder(i, <<"features", "blog">>)
FeaturesRuleForbids(i) == ResolvesUnder(i, <<"app">>)

\* C4 as stated: for a file below features/blog, when the features/blog rule
\* and the features rule disagree on an import, the import is reported
\* exactly when the features/blog rule forbids it.
LongestPrefixGovernance ==
  (zones = DeclaredZones /\ ContainsPath(filename, <<"features", "blog">>)) =>
    \A i \in Visited :
      (BlogRuleForbids(i) # FeaturesRuleForbids(i))
      => ((ReportedAt(i) # {}) <=> BlogRuleForbids(i))

\* C4 amended: a file below features/blog is governed by both rules; when
\* they disagree on an import, the import is reported, by the rule that
\* forbids it and by that rule only.
AllMatchingRulesGovern ==
  (zones = DeclaredZones /\ ContainsPath(filename, <<"features", "blog">>)) =>
    \A i \in Visited :
      (BlogRuleForbids(i) # FeaturesRuleForbids(i))
      => /\ (ReportedBy(i, 1) # {}) <=> BlogRuleForbids(i)
         /\ (ReportedBy(i, 2) # {}) <=> FeaturesRuleForbids(i)
         /\ ReportedAt(i) # {}

AllMatchingRulesGovernWitness ==
  /\ zones = DeclaredZones
  /\ ContainsPath(filename, <<"features", "blog">>)
  /\ \E i \in Visited :
       /\ FeaturesRuleForbids(i)
       /\ ~BlogRuleForbids(i)
       /\ ReportedBy(i, 2) # {}

\* C5: under the declared zones, a file of a feature importing a module of
\* the same feature gets no message for that import.
SelfImportClean ==
  zones = DeclaredZones =>
    \A i \in Visited :
      ( /\ InFeature(filename)
        /\ ResolvedPath(i).found
        /\ InFeature(ResolvedPath(i).path)
        /\ FeatureOf(filename) = FeatureOf(ResolvedPath(i).path) )
      => ReportedAt(i) = {}

SelfImportCleanWitness ==
  /\ zones = DeclaredZones
  /\ filename = <<"features", "blog", "components", "blog-list">>
  /\ 1 \in matchingZones
  /\ \E i \in Visited :
       /\ imports[i] = Relative(1, <<"types", "blog.types">>)
       /\ ResolvesUnder(i, <<"features">>)
       /\ ReportedAt(i) = {}

\* C6 as stated: under the single rule target features / from features /
\* except features/blog, a file of features/users importing a module below
\* features/blog is reported.
ExceptionKeepsOtherFeaturesOut ==
  zones = ExceptionRuleZones =>
    \A i \in Visited :
      ( /\ ContainsPath(filename, <<"features", "users">>)
        /\ ResolvesUnder(i, <<"features", "blog">>) )
      => ReportedAt(i) # {}

\* C6 amended: under that rule the import is not reported; the exception
\* exempts the imported path features/blog for every file below features.
ExceptionAdmitsOtherFeatures ==
  zones = ExceptionRuleZones =>
    \A i \in Visited :
      ( /\ ContainsPath(filename, <<"features", "users">>)
        /\ ResolvesUnder(i, <<"features", "blog">>) )
      => ReportedAt(i) = {}

ExceptionAdmitsOtherFeaturesWitness ==
  /\ zones = ExceptionRuleZones
  /\ ContainsPath(filename, <<"features", "users">>)
  /\ matchingZones = {1}
  /\ \E i \in Visited :
       /\ ResolvesUnder(i, <<"features", "blog">>)
       /\ ReportedAt(i) = {}

\* C7: under the declared rule target features/blog / from features / except
\* blog, a file below features/blog importing a module of any other feature
\* is reported by that rule.
ExceptionIsSubZoneScoped ==
  zones = DeclaredZones =>
    \A i \in Visited :
      ( /\ ContainsPath(filename, <<"features", "blog">>)
        /\ ResolvesUnder(i, <<"features">>)
        /\ ~ResolvesUnder(i, <<"features", "blog">>) )
      => \E r \in ReportedBy(i, 1) : r.from = <<"features">>

ExceptionIsSubZoneScopedWitness ==
  /\ zones = DeclaredZones
  /\ ContainsPath(filename, <<"features", "blog">>)
  /\ \E i \in Visited :
       /\ ResolvesUnder(i, <<"features", "users">>)
       /\ ReportedBy(i, 1) # {}

\* A path lies below one of the exception paths of zone z.
UnderException(path, z) ==
  \E f \in DOMAIN zones[z].from, k \in DOMAIN zones[z].except :
     ContainsPath(path, zones[z].from[f] \o zones[z].except[k])

ImportExcepted(i, z) == ResolvedPath(i).found /\ UnderException(ResolvedPath(i).path, z)

\* C8 as stated: if the imported module or the importing file lies in an
\* exception of a rule, that rule reports nothing for the import.
ListedExceptionSuppresses ==
  \A i \in Visited : \A z \in DOMAIN zones :
    (ImportExcepted(i, z) \/ UnderException(filename, z)) => ReportedBy(i, z) = {}

\* C8 amended: if the imported module lies in an exception of a rule, that
\* rule reports nothing for the import (the importing file lying in an
\* exception suppresses nothing).
ImportExceptionSuppresses ==
  \A i \in Visited : \A z \in DOMAIN zones :
    ImportExcepted(i, z) => ReportedBy(i, z) = {}

ImportExceptionSuppressesWitness ==
  \E i \in Visited : \E z \in matchingZones :
    /\ ImportExcepted(i, z)
    /\ \E f \in DOMAIN zones[z].from : ResolvesUnder(i, zones[z].from[f])
    /\ ReportedBy(i, z) = {}

Untracked ==
  \A z \in DOMAIN zones : \A t \in DOMAIN zones[z].target :
     ~ContainsPath(filename, zones[z].target[t])

\* C10: under every rule set, a file below no rule target gets no message,
\* whatever it imports.
UntrackedFilesExempt == Untracked => report = <<>>

UntrackedFilesExemptWitness ==
  /\ zones = DeclaredZones
  /\ pc = "done"
  /\ filename = <<"config", "env">>
  /\ \E i \in Visited : ResolvesUnder(i, <<"features", "users">>)
  /\ \E i \in Visited : ResolvesUnder(i, <<"app">>)
  /\ report = <<>>

\* C11: under the declared zones, a file of a feature importing a module of
\* the shared layer (components, hooks, lib, types) gets no message for it.
FeaturesMayImportShared ==
  zones = DeclaredZones =>
    \A i \in Visited :
      ( /\ InFeature(filename)
        /\ \E d \in SharedDirs : ResolvesUnder(i, d) )
      => ReportedAt(i) = {}

FeaturesMayImportSharedWitness ==
  /\ zones = DeclaredZones
  /\ filename = <<"features", "blog", "api", "get-blogs">>
  /\ matchingZones = {1, 2}
  /\ \E i \in Visited :
       /\ imports[i] = Alias(<<"lib", "databases">>)
       /\ ReportedAt(i) = {}

\* C12: under the declared zones, a file below app/ gets no message for an
\* import that resolves below features/ or a shared directory.
AppMayImportFeaturesAndShared ==
  zones = DeclaredZones =>
    \A i \in Visited :
      ( /\ ContainsPath(filename, <<"app">>)
        /\ \/ ResolvesUnder(i, <<"features">>)
           \/ \E d \in SharedDirs : ResolvesUnder(i, d) )
      => ReportedAt(i) = {}

AppMayImportFeaturesAndSharedWitness ==
  /\ zones = DeclaredZones
  /\ filename = <<"app", "page">>
  /\ pc = "done"
  /\ \E i \in Visited : ResolvesUnder(i, <<"features", "blog">>)
  /\ \E i \in Visited : ResolvesUnder(i, <<"components">>)
  /\ report = <<>>

\* C18: an import whose module is not found gets no message, and the file's
\* traversal still visits every import, reporting the later ones as usual.
UnresolvableImportIsSkipped ==
  /\ \A i \in Visited : ~imports[i].exists => ReportedAt(i) = {}
  /\ pc = "done" => idx = Len(imports)
  /\ \A i \in Visited :
       (i > 1 /\ ~imports[i - 1].exists)
       => Len(SelectSeq(report, LAMBDA r : r.import = i))
            = Len(LintFile(filename, <<imports[i]>>, zones))

UnresolvableImportIsSkippedWitness ==
  /\ zones = DeclaredZones
  /\ pc = "done"
  /\ filename = <<"lib", "x">>
  /\ imports = << Missing(<<"features", "blog", "gone">>),
                  Alias(<<"features", "blog", "api", "get-blogs">>) >>
  /\ ReportedAt(1) = {}
  /\ ReportedAt(2) # {}

\* One rule per target path, with the same from and except.
RECURSIVE Desugar(_)
Desugar(zs) ==
  IF zs = <<>> THEN <<>>
  ELSE [t \in DOMAIN Head(zs).target |->
          [target |-> << Head(zs).target[t] >>,
           from   |-> Head(zs).from,
           except |-> Head(zs).except]]
       \o Desugar(Tail(zs))

\* A message without the position of its rule in the configuration.
Violation(r) == [import |-> r.import, specifier |-> r.specifier, from |-> r.from]
Violations(rs) == [k \in DOMAIN rs |-> Violation(rs[k])]

\* C20: in every rule set, the messages of a file are those it gets when
\* each rule listing several targets is replaced by one rule per target.
MultiTargetIsSugar ==
  Violations(report) = Violations(LintImports(filename, imports, idx, Desugar(zones)))

MultiTargetIsSugarWitness ==
  /\ zones = DeclaredZones
  /\ Len(Desugar(zones)) = 7
  /\ filename = <<"lib", "x">>
  /\ pc = "done"
  /\ Len(report) = 2

(***************************************************************************)
(* Properties of a run                                                     *)
(***************************************************************************)

RunEnded == outcome \in {"clean", "failed", "configuration_error"}
RunAnalysed == outcome \in {"clean", "failed"}

\* A violation as the triple (file and import, rule, forbidden source).
Triple(v) == [file |-> v.file, import |-> v.import, rule |-> v.rule, from |-> v.from]

\* Every (file, import, rule) of source file f that violates, under rules zs.
ViolatingOf(f, zs) ==
  UNION { UNION { { [file |-> f.path, import |-> i, rule |-> zs[z], from |-> zs[z].from[k]] :
                    k \in {j \in DOMAIN zs[z].from :
                            LET r == Resolve(f.path, f.imports[i])
                            IN  /\ r.found
                                /\ ContainsPath(r.path, zs[z].from[j])
                                /\ \A e \in DOMAIN zs[z].except :
                                     ~ContainsPath(r.path, zs[z].from[j] \o zs[z].except[e])} } :
                  z \in {y \in DOMAIN zs :
                          \E t \in DOMAIN zs[y].target : ContainsPath(f.path, zs[y].target[t])} } :
          i \in DOMAIN f.imports }

Violating(zs) == UNION {ViolatingOf(f, zs) : f \in tree}

Reported == {Triple(finalReport[k]) : k \in DOMAIN finalReport}

\* C13: the report of an analysed tree holds every (file, import, rule)
\* that violates, each once, and the same ones when the rules are declared
\* in the opposite order.
NoShortCircuit ==
  RunAnalysed =>
    /\ Reported = Violating(zones)
    /\ Len(finalReport) = Cardinality(Violating(zones))
    /\ Reported = UNION { {Triple(v) : v \in Range(FileViolations(f, Reverse(zones)))} :
                          f \in tree }

NoShortCircuitWitness ==
  /\ zones = StrictZones
  /\ outcome = "failed"
  /\ \E f \in tree :
       /\ Len(f.imports) = 3
       /\ LET own == SelectSeq(finalReport, LAMBDA v : v.file = f.path)
          IN  /\ Len(own) = 3
              /\ Cardinality({own[k].import : k \in DOMAIN own}) = 3
              /\ Cardinality({own[k].rule : k \in DOMAIN own}) = 3

\* C14: a later invocation on the unchanged tree returns what the previous
\* one returned: same outcome, same exit status, same report in the same
\* order.
Deterministic ==
  (invocation > 1 /\ RunEnded) =>
    previous = [outcome |-> outcome, exitStatus |-> exitStatus, report |-> finalReport]

DeterministicWitness ==
  /\ invocation = 2
  /\ outcome = "failed"
  /\ Len(finalReport) >= 3
  /\ previous.report = finalReport
  /\ \A w \in WorkerIds : lists[w] # <<>>

\* C15: the report lists violations by ascending file path and, within a
\* file, in the order of the imports.
ReportIsOrdered ==
  RunEnded =>
    \A i, j \in DOMAIN finalReport :
      i < j =>
        \/ PathLess(finalReport[i].file, finalReport[j].file)
        \/ /\ finalReport[i].file = finalReport[j].file
           /\ finalReport[i].import <= finalReport[j].import

ReportIsOrderedWitness ==
  /\ outcome = "failed"
  /\ Concatenate(lists, 1) # finalReport
  /\ finalReport[1].file = <<"components", "ui", "button">>
  /\ finalReport[Len(finalReport)].file = <<"lib", "x">>

\* The verdict of an ended run agrees with its report.
VerdictAgrees ==
  /\ (outcome = "clean" /\ exitStatus = 0) <=> (finalReport = <<>>)
  /\ (outcome = "failed" /\ exitStatus # 0) <=> (finalReport # <<>>)

ConfigurationErrorIsFatal ==
  zones = BrokenZones =>
    /\ analysed = {}
    /\ \A w \in WorkerIds : lists[w] = <<>>
    /\ finalReport = <<>>
    /\ outcome \in {"none", "configuration_error"}
    /\ outcome = "configuration_error" => exitStatus \notin {0, 1}

ConfigurationErrorIsFatalWitness ==
  /\ zones = BrokenZones
  /\ outcome = "configuration_error"
  /\ Violating(zones) # {}
  /\ finalReport = <<>>

\* The violations of a set of files scanned one after the other, by
\* ascending path.
RECURSIVE SequentialScan(_)
SequentialScan(files) ==
  IF files = {} THEN <<>>
  ELSE LET f == CHOOSE g \in files : \A h \in files \ {g} : PathLess(g.path, h.path)
       IN  FileViolations(f, zones) \o SequentialScan(files \ {f})

\* C19: whichever worker analyses which file in which order, the sorted
\* concatenation of the workers' lists is the report of a sequential run.
ParallelEqualsSequential ==
  RunAnalysed => finalReport = SortReport(SequentialScan(tree))

ParallelEqualsSequentialWitness ==
  /\ outcome = "failed"
  /\ \A w \in WorkerIds : lists[w] # <<>>
  /\ Concatenate(lists, 1) # SequentialScan(tree)
  /\ finalReport = SortReport(SequentialScan(tree))

(***************************************************************************)
(* Zone matching and the template's own files                              *)
(***************************************************************************)

\* Every segment of path t is the segment of path p at the same depth.
WholeDirectoryPrefix(t, p) == \A k \in 1..Len(t) : k <= Len(p) /\ p[k] = t[k]

\* The declared target paths that are whole-directory prefixes of the file.
PrefixTargets(z) ==
  {zones[z].target[t] : t \in {u \in DOMAIN zones[z].target :
                                 WholeDirectoryPrefix(zones[z].target[u], filename)}}

\* C21 as stated: a file is governed by one zone only, the one whose target
\* path is the longest declared whole-directory prefix of the file's path.
UniqueLongestZone ==
  pc # "idle" =>
    /\ Cardinality(matchingZones) <= 1
    /\ \A z \in matchingZones : \A y \in DOMAIN zones :
         \A ty \in PrefixTargets(y) : \E tz \in PrefixTargets(z) : Len(tz) >= Len(ty)

\* C21: zone matching compares whole directories: the zones that apply to
\* a file are all those with a target path that is a whole-directory prefix
\* of the file's path (none for an untracked file, more than one below
\* features/blog), and the features/blog zone never applies to a file
\* below features/bloggy.
ZoneMatchingIsBoundaryAware ==
  pc # "idle" =>
    /\ matchingZones = {z \in DOMAIN zones : PrefixTargets(z) # {}}
    /\ (zones = DeclaredZones /\ filename[1] = "features" /\ filename[2] = "bloggy")
          => (1 \notin matchingZones /\ \A i \in Visited : ReportedBy(i, 1) = {})

ZoneMatchingIsBoundaryAwareWitness ==
  /\ zones = DeclaredZones
  /\ pc = "done"
  /\ filename = <<"features", "bloggy", "components", "card">>
  /\ matchingZones = {2}
  /\ \E i \in Visited : ResolvesUnder(i, <<"features", "users">>)
  /\ report = <<>>

\* C22: under the declared zones every one of the template's own files
\* (app/page, the blog feature's components and api, lib/prisma) is linted
\* without a message, so a lint pass over the repository reports nothing.
RepositoryIsClean ==
  (zones = DeclaredZones /\ SourceFile(filename, imports) \in RepositoryFiles)
    => report = <<>>

RepositoryIsCleanWitness ==
  /\ zones = DeclaredZones
  /\ pc = "done"
  /\ filename = <<"features", "blog", "api", "get-blogs">>
  /\ SourceFile(filename, imports) \in RepositoryFiles
  /\ matchingZones = {1, 2}
  /\ \E i \in Visited : ResolvesUnder(i, <<"lib">>)
  /\ report = <<>>

(***************************************************************************)
(* The render test: main, runBrowserTests, testRoute, cleanup and the      *)
(* signal handlers. A step runs from one await to the next; signals and    *)
(* page events are delivered between steps.                                *)
(***************************************************************************)

\* Most routes on the command line, signals delivered and page events raised.
MaxRoutes == 2
MaxSignals == 1
MaxEvents == 1

Routes == {"/", "/blog"}

Statuses == {200, 399, 400, 404, 499, 500}

\* Variant: the root route is always tested first.
RoutesToTestRootFirst(a) == <<"/">> \o a

\* The routes given as arguments, the root route when there are none.
RoutesToTest(a) == IF Len(a) > 0 THEN a ELSE <<"/">>

\* An entry of errors or warnings. doc and ev tell which document raised
\* the page event behind the entry and which event it was; both are 0 for
\* an entry that testRoute pushes itself.
Entry(source, doc, ev) == [source |-> source, doc |-> doc, ev |-> ev]

PushError(call, e) == [call EXCEPT !.errors = Append(@, e)]

PushWarning(call, e) == [call EXCEPT !.warnings = Append(@, e)]

\* Variant: a 404 is an error.
CheckHttpStatusNotFoundFails(call, status) ==
  LET seen == [call EXCEPT !.status = status]
  IN  IF status >= 400 /\ status # 404 /\ status < 500
        THEN PushWarning(seen, Entry("http", 0, 0))
      ELSE IF status >= 400 THEN PushError(seen, Entry("http", 0, 0))
      ELSE seen

\* The check of the response status in testRoute.
CheckHttpStatus(call, status) ==
  LET seen == [call EXCEPT !.status = status]
  IN  IF status = 404 THEN PushWarning(seen, Entry("http", 0, 0))
      ELSE IF status >= 500 THEN PushError(seen, Entry("http", 0, 0))
      ELSE IF status >= 400 THEN PushWarning(seen, Entry("http", 0, 0))
      ELSE seen

RECURSIVE TotalErrors(_)
TotalErrors(results) ==
  IF results = <<>> THEN 0
  ELSE Len(Head(results).errors) + TotalErrors(Tail(results))

RECURSIVE TotalWarnings(_)
TotalWarnings(results) ==
  IF results = <<>> THEN 0
  ELSE Len(Head(results).warnings) + TotalWarnings(Tail(results))

\* Variant: a warning fails the run too.
SuccessWithoutWarnings(results) == TotalErrors(results) + TotalWarnings(results) = 0

\* The success field of what runBrowserTests returns after its loop.
Success(results) == TotalErrors(results) = 0

StartCall(k) == [NoCall EXCEPT !.route = routesToTest[k]]

restOfModel == <<zones, lintVars, runVars, seedVars, args, serverUp, routesToTest>>

RenderInit ==
  /\ zones = DeclaredZones
  /\ NoLint
  /\ NoRun
  /\ NoSeed
  /\ args \in SeqsUpTo(Routes, MaxRoutes)
  /\ serverUp \in BOOLEAN
  /\ routesToTest = RoutesToTest(args)
  /\ mainPc = "waitOn"
  /\ browser = FALSE
  /\ closeCalls = 0
  /\ browserClosed = FALSE
  /\ handlers = 0
  /\ signals = 0
  /\ routeIdx = 0
  /\ current = NoCall
  /\ allResults = <<>>
  /\ injected = 0
  /\ loaded = NoDocument
  /\ events = 0
  /\ exitCode = 0
  /\ processExit = NoExit

\* Variant: main exits without cleanup().
FinallyWithoutCleanup(code) ==
  /\ exitCode' = code
  /\ mainPc' = "exited"
  /\ processExit' = [by |-> "main", code |-> code]
  /\ UNCHANGED closeCalls

\* main's finally block with exitCode set to code: cleanup() closes the
\* browser if the variable holds one, then process.exit(exitCode).
Finally(code) ==
  /\ exitCode' = code
  /\ IF browser
       THEN /\ closeCalls' = closeCalls + 1
            /\ mainPc' = "close"
            /\ UNCHANGED processExit
       ELSE /\ mainPc' = "exited"
            /\ processExit' = [by |-> "main", code |-> code]
            /\ UNCHANGED closeCalls

\* What testRoute returns (consoleMessages, which nothing reads, left out).
Result(call) ==
  [route |-> call.route, errors |-> call.errors, warnings |-> call.warnings]

\* testRoute returns: the loop pushes the result and calls testRoute for the
\* next route (listeners cleared and registered anew, up to the await of
\* evaluateOnNewDocument), or runBrowserTests returns and main finishes.
Return(call) ==
  LET results == Append(allResults, Result(call))
  IN  /\ allResults' = results
      /\ IF routeIdx < Len(routesToTest)
           THEN /\ routeIdx' = routeIdx + 1
                /\ current' = StartCall(routeIdx + 1)
                /\ mainPc' = "inject"
                /\ UNCHANGED <<exitCode, closeCalls, processExit>>
           ELSE /\ current' = NoCall
                /\ UNCHANGED routeIdx
                /\ Finally(IF Success(results) THEN 0 ELSE 1)

\* waitOn resolves: the dev server answers; runBrowserTests launches.
WaitOnResolves ==
  /\ mainPc = "waitOn"
  /\ serverUp
  /\ mainPc' = "launch"
  /\ UNCHANGED <<restOfModel, browser, closeCalls, browserClosed, handlers,
                 signals, routeIdx, current, allResults, injected, loaded,
                 events, exitCode, processExit>>

\* waitOn rejects: main throws "Dev server not responding".
WaitOnRejects ==
  /\ mainPc = "waitOn"
  /\ ~serverUp
  /\ Finally(1)
  /\ UNCHANGED <<restOfModel, browser, browserClosed, handlers, signals,
                 routeIdx, current, allResults, injected, loaded, events>>

LaunchResolves ==
  /\ mainPc = "launch"
  /\ browser' = TRUE
  /\ mainPc' = "newPage"
  /\ UNCHANGED <<restOfModel, closeCalls, browserClosed, handlers, signals,
                 routeIdx, current, allResults, injected, loaded, events,
                 exitCode, processExit>>

\* puppeteer.launch rejects: runBrowserTests catches and returns failure.
LaunchRejects ==
  /\ mainPc = "launch"
  /\ Finally(1)
  /\ UNCHANGED <<restOfModel, browser, browserClosed, handlers, signals,
                 routeIdx, current, allResults, injected, loaded, events>>

NewPageResolves ==
  /\ mainPc = "newPage"
  /\ mainPc' = "setViewport"
  /\ UNCHANGED <<restOfModel, browser, closeCalls, browserClosed, handlers,
                 signals, routeIdx, current, allResults, injected, loaded,
                 events, exitCode, processExit>>

\* The page is ready: the loop calls testRoute for the first route.
SetViewportResolves ==
  /\ mainPc = "setViewport"
  /\ routeIdx' = 1
  /\ current' = StartCall(1)
  /\ mainPc' = "inject"
  /\ UNCHANGED <<restOfModel, browser, closeCalls, browserClosed, handlers,
                 signals, allResults, injected, loaded, events, exitCode,
                 processExit>>

\* browser.newPage or page.setViewport rejects: runBrowserTests catches.
PageSetupRejects ==
  /\ mainPc \in {"newPage", "setViewport"}
  /\ Finally(1)
  /\ UNCHANGED <<restOfModel, browser, browserClosed, handlers, signals,
                 routeIdx, current, allResults, injected, loaded, events>>

\* evaluateOnNewDocument resolves: one more script runs in every new
\* document; testRoute navigates.
InjectResolves ==
  /\ mainPc = "inject"
  /\ injected' = injected + 1
  /\ mainPc' = "goto"
  /\ UNCHANGED <<restOfModel, browser, closeCalls, browserClosed, handlers,
                 signals, routeIdx, current, allResults, loaded, events,
                 exitCode, processExit>>

\* evaluateOnNewDocument rejects: testRoute's outer catch.
InjectRejects ==
  /\ mainPc = "inject"
  /\ Return(PushError(current, Entry("test", 0, 0)))
  /\ UNCHANGED <<restOfModel, browser, browserClosed, handlers, signals,
                 injected, loaded, events>>

\* page.goto resolves with a response: its status is checked.
GotoResolves ==
  /\ mainPc = "goto"
  /\ \E status \in Statuses :
       /\ current' = CheckHttpStatus(current, status)
       /\ mainPc' = IF status >= 500 THEN "errorText" ELSE "settle"
  /\ loaded' = [route |-> routeIdx, scripts |-> injected]
  /\ UNCHANGED <<restOfModel, browser, closeCalls, browserClosed, handlers,
                 signals, routeIdx, allResults, injected, events, exitCode,
                 processExit>>

\* page.goto rejects, before or after the new document replaced the old one.
GotoRejects ==
  /\ mainPc = "goto"
  /\ \E committed \in BOOLEAN :
       loaded' = IF committed THEN [route |-> routeIdx, scripts |-> injected]
                 ELSE loaded
  /\ Return(PushError(current, Entry("navigation", 0, 0)))
  /\ UNCHANGED <<restOfModel, browser, browserClosed, handlers, signals,
                 injected, events>>

\* The text of a 5xx page is read (a rejection is swallowed); a React child
\* error in it is one more error. The overlay and content checks are skipped.
ErrorTextDone ==
  /\ mainPc = "errorText"
  /\ \E react \in BOOLEAN :
       Return(IF react THEN PushError(current, Entry("react", 0, 0)) ELSE current)
  /\ UNCHANGED <<restOfModel, browser, browserClosed, handlers, signals,
                 injected, loaded, events>>

\* The one-second wait for client-side rendering is over.
SettleDone ==
  /\ mainPc = "settle"
  /\ mainPc' = "overlay"
  /\ UNCHANGED <<restOfModel, browser, closeCalls, browserClosed, handlers,
                 signals, routeIdx, current, allResults, injected, loaded,
                 events, exitCode, processExit>>

OverlayResolves ==
  /\ mainPc = "overlay"
  /\ \E found \in BOOLEAN :
       current' = IF found THEN PushError(current, Entry("nextjs", 0, 0))
                  ELSE current
  /\ mainPc' = "content"
  /\ UNCHANGED <<restOfModel, browser, closeCalls, browserClosed, handlers,
                 signals, routeIdx, allResults, injected, loaded, events,
                 exitCode, processExit>>

ContentResolves ==
  /\ mainPc = "content"
  /\ \E isEmpty \in BOOLEAN :
       Return(IF isEmpty THEN PushWarning(current, Entry("content", 0, 0))
              ELSE current)
  /\ UNCHANGED <<restOfModel, browser, browserClosed, handlers, signals,
                 injected, loaded, events>>

\* One of the two page.evaluate calls rejects: the evalError catch.
EvaluateRejects ==
  /\ mainPc \in {"overlay", "content"}
  /\ Return(PushWarning(current, Entry("evaluation", 0, 0)))
  /\ UNCHANGED <<restOfModel, browser, browserClosed, handlers, signals,
                 injected, loaded, events>>

\* The browser.close() awaited by main's cleanup() is done: process.exit.
MainCloseResolves ==
  /\ mainPc = "close"
  /\ browserClosed' = TRUE
  /\ mainPc' = "exited"
  /\ processExit' = [by |-> "main", code |-> exitCode]
  /\ UNCHANGED <<restOfModel, browser, closeCalls, handlers, signals,
                 routeIdx, current, allResults, injected, loaded, events,
                 exitCode>>

\* SIGINT or SIGTERM is delivered (both handlers have the same body):
\* cleanup() closes the browser if the variable holds one, then
\* process.exit(1).
Signal ==
  /\ mainPc \notin {"idle", "exited"}
  /\ signals < MaxSignals
  /\ signals' = signals + 1
  /\ IF browser
       THEN /\ closeCalls' = closeCalls + 1
            /\ handlers' = handlers + 1
            /\ UNCHANGED <<mainPc, processExit>>
       ELSE /\ mainPc' = "exited"
            /\ processExit' = [by |-> "signal", code |-> 1]
            /\ UNCHANGED <<closeCalls, handlers>>
  /\ UNCHANGED <<restOfModel, browser, browserClosed, routeIdx, current,
                 allResults, injected, loaded, events, exitCode>>

\* The browser.close() awaited by a signal handler is done: process.exit(1).
HandlerCloseResolves ==
  /\ mainPc \notin {"idle", "exited"}
  /\ handlers > 0
  /\ handlers' = handlers - 1
  /\ browserClosed' = TRUE
  /\ mainPc' = "exited"
  /\ processExit' = [by |-> "signal", code |-> 1]
  /\ UNCHANGED <<restOfModel, browser, closeCalls, signals, routeIdx, current,
                 allResults, injected, loaded, events, exitCode>>

\* The listeners registered by the running testRoute call are on the page.
Listening ==
  mainPc \in {"inject", "goto", "errorText", "settle", "overlay", "content"}

\* The documents that can raise an event: the one the page holds and,
\* during a navigation, the one being loaded.
Documents ==
  (IF loaded.route > 0 THEN {loaded} ELSE {})
    \cup (IF mainPc = "goto" THEN {[route |-> routeIdx, scripts |-> injected]}
          ELSE {})

\* The page.on('console') listener gets an error or a warning message.
Console ==
  /\ Listening
  /\ events < MaxEvents
  /\ events' = events + 1
  /\ \E d \in Documents, type \in {"error", "warning"} :
       current' = IF type = "error"
                    THEN PushError(current, Entry("console", d.route, events + 1))
                    ELSE PushWarning(current, Entry("console", d.route, events + 1))
  /\ UNCHANGED <<restOfModel, mainPc, browser, closeCalls, browserClosed,
                 handlers, signals, routeIdx, allResults, injected, loaded,
                 exitCode, processExit>>

\* The page.on('pageerror') listener gets an uncaught exception.
PageError ==
  /\ Listening
  /\ events < MaxEvents
  /\ events' = events + 1
  /\ \E d \in Documents :
       current' = PushError(current, Entry("runtime", d.route, events + 1))
  /\ UNCHANGED <<restOfModel, mainPc, browser, closeCalls, browserClosed,
                 handlers, signals, routeIdx, allResults, injected, loaded,
                 exitCode, processExit>>

RECURSIVE Repeat(_, _)
Repeat(e, n) == IF n = 0 THEN <<>> ELSE <<e>> \o Repeat(e, n - 1)

\* A promise rejection is left unhandled in a document: every script
\* injected into it calls console.error, and the console listener gets
\* each message.
UnhandledRejection ==
  /\ Listening
  /\ events < MaxEvents
  /\ events' = events + 1
  /\ \E d \in Documents :
       /\ d.scripts > 0
       /\ current' = [current EXCEPT !.errors =
                        @ \o Repeat(Entry("console", d.route, events + 1), d.scripts)]
  /\ UNCHANGED <<restOfModel, mainPc, browser, closeCalls, browserClosed,
                 handlers, signals, routeIdx, allResults, injected, loaded,
                 exitCode, processExit>>

RenderNext ==
  \/ WaitOnResolves \/ WaitOnRejects
  \/ LaunchResolves \/ LaunchRejects
  \/ NewPageResolves \/ SetViewportResolves \/ PageSetupRejects
  \/ InjectResolves \/ InjectRejects
  \/ GotoResolves \/ GotoRejects
  \/ ErrorTextDone \/ SettleDone \/ OverlayResolves \/ ContentResolves
  \/ EvaluateRejects
  \/ MainCloseResolves \/ Signal \/ HandlerCloseResolves
  \/ Console \/ PageError \/ UnhandledRejection

RenderSpec == RenderInit /\ [][RenderNext]_vars

(***************************************************************************)
(* Properties of the render test                                           *)
(***************************************************************************)

Exited == mainPc = "exited"

NoErrors == \A k \in DOMAIN allResults : allResults[k].errors = <<>>

\* C23 as stated: the process exits with code 0 exactly when the dev server
\* responded, the browser was launched and no tested route recorded an error.
ExitCodeIffClean ==
  Exited => (processExit.code = 0 <=> (serverUp /\ browser /\ NoErrors))

\* C23: the process exits with code 0 exactly when process.exit is reached
\* from main (a SIGINT or SIGTERM handler always exits with 1), the dev
\* server responded, and every route to test was tested and recorded zero
\* errors, however many warnings were recorded; otherwise (a route with an
\* error, no dev server, no browser or no page) it exits with code 1.
ExitCodeIffCleanRun ==
  Exited =>
    /\ processExit.code \in {0, 1}
    /\ processExit.code = 0 <=>
         /\ processExit.by = "main"
         /\ serverUp
         /\ Len(allResults) = Len(routesToTest)
         /\ NoErrors

ExitCodeIffCleanRunWitness ==
  /\ Exited
  /\ processExit = [by |-> "main", code |-> 0]
  /\ Len(allResults) = 2
  /\ \A k \in DOMAIN allResults : allResults[k].warnings # <<>>

From(entries, sources) ==
  Cardinality({j \in DOMAIN entries : entries[j].source \in sources})

\* C24: once the response status of the running testRoute call is known, a
\* status in 400..499 (404 included) has pushed exactly one http warning and
\* no error; a status of 500 or more has pushed an http error and no
\* warning, and the overlay and content checks are not run; a status below
\* 400 has pushed nothing.
StatusClassification ==
  current.status # 0 =>
    /\ current.status \in 400..499 =>
         /\ From(current.warnings, {"http"}) = 1
         /\ From(current.errors, {"http", "react"}) = 0
    /\ current.status >= 500 =>
         /\ From(current.errors, {"http"}) >= 1
         /\ From(current.warnings, {"http"}) = 0
         /\ mainPc \notin {"settle", "overlay", "content"}
         /\ From(current.errors, {"nextjs"}) = 0
         /\ From(current.warnings, {"content", "evaluation"}) = 0
    /\ current.status < 400 =>
         /\ From(current.warnings, {"http"}) = 0
         /\ From(current.errors, {"http", "react"}) = 0

StatusClassificationWitness ==
  /\ current.status = 404
  /\ mainPc = "content"
  /\ From(current.warnings, {"http"}) = 1
  /\ From(current.errors, {"nextjs"}) = 1
  /\ Len(allResults) = 1
  /\ allResults[1].errors = <<Entry("http", 0, 0), Entry("react", 0, 0)>>

\* The routes a run has to test, read off the command line.
Expected == IF args = <<>> THEN <<"/">> ELSE args

Calls == allResults \o (IF Listening THEN <<Result(current)>> ELSE <<>>)

Recorded(k) == Calls[k].errors \o Calls[k].warnings

\* C27 as stated: an event raised by the document of route k is recorded
\* in the result of route k and nowhere else, once.
EventsRecordedOncePerRoute ==
  \A k \in DOMAIN Calls : \A j \in DOMAIN Recorded(k) :
     Recorded(k)[j].ev > 0 =>
       /\ Recorded(k)[j].doc = k
       /\ \A k2 \in DOMAIN Calls : \A j2 \in DOMAIN Recorded(k2) :
            Recorded(k2)[j2].ev = Recorded(k)[j].ev => (k2 = k /\ j2 = j)

(***************************************************************************)
(* The blog table: the seed script that fills it and the home page that    *)
(* reads it. A row is its slug (unique), title, published flag and         *)
(* publishedAt (a date as yyyymmdd, 0 for null); excerpt and content are   *)
(* written exactly where title is, and the generated id and timestamps are *)
(* left out.                                                               *)
(***************************************************************************)

\* Most runs of the seed script in a row.
MaxSeedRuns == 2

Blog(slug, title, published, publishedAt) ==
  [slug |-> slug, title |-> title, published |-> published,
   publishedAt |-> publishedAt]

\* The blogs array of the seed script.
SeedBlogs ==
  << Blog("getting-started-with-nextjs", "Getting Started with Next.js",
          TRUE, 20240115),
     Blog("understanding-prisma-orm", "Understanding Prisma ORM",
          TRUE, 20240201),
     Blog("building-modern-uis-with-tailwind",
          "Building Modern UIs with Tailwind CSS", TRUE, 20240220),
     Blog("typescript-best-practices", "TypeScript Best Practices",
          TRUE, 20240305),
     Blog("server-vs-client-components",
          "Server Components vs Client Components", TRUE, 20240315),
     Blog("advanced-database-patterns-prisma",
          "Advanced Database Patterns with Prisma", FALSE, 0) >>

\* Rows a table may hold before the script runs: older versions of two
\* seeded posts and three posts the script does not know.
EarlierRows ==
  { Blog("getting-started-with-nextjs", "Hello", FALSE, 0),
    Blog("advanced-database-patterns-prisma", "Patterns", TRUE, 20240401),
    Blog("my-post", "My post", TRUE, 20240315),
    Blog("undated-post", "Undated", TRUE, 0),
    Blog("draft-post", "Draft", FALSE, 0) }

StartTables == SUBSET EarlierRows

\* Variant: an existing row is left as it is (update: {}).
UpsertCreateOnly(table, blog) ==
  IF \E row \in table : row.slug = blog.slug THEN table
  ELSE table \cup {blog}

\* prisma.blog.upsert({where: {slug}, update: blog, create: blog}).
Upsert(table, blog) ==
  {row \in table : row.slug # blog.slug} \cup {blog}

\* a comes no later than b under orderBy publishedAt desc (null first).
NoLater(a, b) ==
  \/ a.publishedAt = 0
  \/ b.publishedAt # 0 /\ a.publishedAt >= b.publishedAt

\* The orders in which the rows of a set can be returned.
RECURSIVE Orderings(_)
Orderings(rows) ==
  IF rows = {} THEN {<<>>}
  ELSE UNION { {<<r>> \o rest : rest \in Orderings(rows \ {r})} :
               r \in {a \in rows : \A b \in rows : NoLater(a, b)} }

\* Variant: no where clause.
GetBlogsUnfiltered(table) == Orderings(table)

\* What getPublishedBlogs may return: findMany where published is true,
\* orderBy publishedAt desc; rows with the same publishedAt in any order.
GetPublishedBlogs(table) == Orderings({row \in table : row.published})

BlogCard(blog) == [key |-> blog.slug, blog |-> blog]

\* What BlogList renders: the message, or one BlogCard per blog in order.
BlogList(blogs) ==
  IF Len(blogs) = 0 THEN [cards |-> <<>>, message |-> TRUE]
  ELSE [cards |-> [k \in DOMAIN blogs |-> BlogCard(blogs[k])], message |-> FALSE]

otherThanSeed == <<zones, lintVars, runVars, renderVars>>

SeedInit ==
  /\ zones = DeclaredZones
  /\ NoLint
  /\ NoRun
  /\ NoRender
  /\ blogTable \in StartTables
  /\ startTable = blogTable
  /\ seedPc = "upsert"
  /\ seedIdx = 0
  /\ seedRun = 1
  /\ seedStatus = NoStatus
  /\ seeded = FALSE
  /\ home = NoHome

\* The upsert of the next entry resolves.
UpsertResolves ==
  /\ seedPc = "upsert"
  /\ seedIdx < Len(SeedBlogs)
  /\ blogTable' = Upsert(blogTable, SeedBlogs[seedIdx + 1])
  /\ seedIdx' = seedIdx + 1
  /\ seeded' = (seeded \/ seedIdx + 1 = Len(SeedBlogs))
  /\ UNCHANGED <<otherThanSeed, startTable, seedPc, seedRun, seedStatus, home>>

\* The upsert of the next entry rejects: main() rejects, the catch callback
\* logs the error and calls process.exit(1); the process ends there.
UpsertRejects ==
  /\ seedPc = "upsert"
  /\ seedIdx < Len(SeedBlogs)
  /\ seedStatus' = [seedStatus EXCEPT !.logged = TRUE, !.exit = 1]
  /\ seedPc' = "ended"
  /\ UNCHANGED <<otherThanSeed, blogTable, startTable, seedIdx, seedRun,
                 seeded, home>>

\* main() resolves: the catch callback is passed over and the finally
\* callback invokes prisma.$disconnect().
MainResolves ==
  /\ seedPc = "upsert"
  /\ seedIdx = Len(SeedBlogs)
  /\ seedStatus' = [seedStatus EXCEPT !.disconnected = TRUE]
  /\ seedPc' = "disconnect"
  /\ UNCHANGED <<otherThanSeed, blogTable, startTable, seedIdx, seedRun,
                 seeded, home>>

\* $disconnect() is done and nothing is left to run: the process ends.
DisconnectResolves ==
  /\ seedPc = "disconnect"
  /\ seedStatus' = [seedStatus EXCEPT !.exit = 0]
  /\ seedPc' = "ended"
  /\ UNCHANGED <<otherThanSeed, blogTable, startTable, seedIdx, seedRun,
                 seeded, home>>

\* The script is run again on the table as it is.
RunAgain ==
  /\ seedPc = "ended"
  /\ seedRun < MaxSeedRuns
  /\ seedRun' = seedRun + 1
  /\ seedIdx' = 0
  /\ seedStatus' = NoStatus
  /\ seedPc' = "upsert"
  /\ UNCHANGED <<otherThanSeed, blogTable, startTable, seeded, home>>

\* The home page is requested: Home awaits getPublishedBlogs() and renders
\* BlogList with what it returned.
Home ==
  /\ seedPc # "idle"
  /\ \E blogs \in GetPublishedBlogs(blogTable) :
       home' = [requested |-> TRUE, table |-> blogTable, fetched |-> blogs,
                cards |-> BlogList(blogs).cards,
                message |-> BlogList(blogs).message]
  /\ UNCHANGED <<otherThanSeed, blogTable, startTable, seedPc, seedIdx,
                 seedRun, seedStatus, seeded>>

SeedNext ==
  \/ UpsertResolves \/ UpsertRejects \/ MainResolves \/ DisconnectResolves
  \/ RunAgain \/ Home

SeedSpec == SeedInit /\ [][SeedNext]_vars

(***************************************************************************)
(* Properties of the seed script and the home page                         *)
(***************************************************************************)

SeedSlugs == {SeedBlogs[k].slug : k \in DOMAIN SeedBlogs}

\* The table a complete run leaves: the seed entries, and the rows of the
\* starting table with other slugs.
SeededTable ==
  {SeedBlogs[k] : k \in DOMAIN SeedBlogs}
    \cup {row \in startTable : row.slug \notin SeedSlugs}

\* C28: from the moment a run has upserted every entry, whatever the
\* starting table and however often the script runs afterwards (runs that
\* fail half-way included), the table holds for every seeded slug exactly
\* one row, equal to its seed entry, and the other rows of the starting
\* table unchanged.
SeedingIsIdempotent ==
  seeded =>
    /\ blogTable = SeededTable
    /\ \A k \in DOMAIN SeedBlogs :
         {row \in blogTable : row.slug = SeedBlogs[k].slug} = {SeedBlogs[k]}

SeedingIsIdempotentWitness ==
  /\ seeded
  /\ seedRun = 2
  /\ seedPc = "upsert"
  /\ seedIdx = 3
  /\ startTable = EarlierRows
  /\ blogTable = SeededTable

\* C29 as stated: a run that ended has invoked prisma.$disconnect(), and a
\* run in which an upsert rejected has logged the error and exited with 1.
SeedDisconnectsAndExits ==
  seedPc = "ended" =>
    /\ seedStatus.disconnected
    /\ seedIdx < Len(SeedBlogs) => (seedStatus.logged /\ seedStatus.exit = 1)

\* C30: a request of the home page fetches exactly the rows of the table
\* whose published flag is true, each once, by descending publishedAt, and
\* renders one BlogCard per fetched blog in that order, or the message
\* "No blog posts found." and no card when nothing was fetched.
OnlyPublishedReachHome ==
  home.requested =>
    /\ {home.fetched[k] : k \in DOMAIN home.fetched}
         = {row \in home.table : row.published}
    /\ Len(home.fetched) = Cardinality({row \in home.table : row.published})
    /\ \A i, j \in DOMAIN home.fetched :
         (i < j /\ home.fetched[i].publishedAt # 0 /\ home.fetched[j].publishedAt # 0)
           => home.fetched[i].publishedAt >= home.fetched[j].publishedAt
    /\ Len(home.cards) = Len(home.fetched)
    /\ \A k \in DOMAIN home.cards : home.cards[k].blog = home.fetched[k]
    /\ home.message <=> home.fetched = <<>>
    /\ home.message => home.cards = <<>>

OnlyPublishedReachHomeWitness ==
  /\ home.requested
  /\ seeded
  /\ \E row \in home.table : ~row.published
  /\ Len(home.cards) = 7
  /\ home.cards[1].key = "undated-post"
  /\ home.cards[2].key = "my-post"
  /\ home.cards[3].key = "server-vs-client-components"
  /\ ~home.message

====
